---- MODULE Spec2Model ----
(***************************************************************************)
(* Model of the crawl engine of Crawl.py: WebScraper.can_fetch,            *)
(* WebScraper.get_page and WebScraper.search_keywords_across_web, together *)
(* with the is_scraping flag of WebScraperGUI that start_scraping and      *)
(* stop_scraping set.                                                      *)
(*                                                                         *)
(* The network is an oracle: every robots.txt retrieval and every page GET *)
(* has its outcome chosen nondeterministically.  The pages are a small     *)
(* fixed web with a cycle, a self link, duplicate links, a link to a page  *)
(* that is linked from two places and a link with an ftp scheme.           *)
(***************************************************************************)
EXTENDS Integers, Sequences, FiniteSets, TLC

(***************************************************************************)
(* Bounds of the model.                                                    *)
(***************************************************************************)
MaxSeeds == 2
MaxDepthArg == 2
MaxPagesArg == 3
MaxElems == 2
MaxItems == 2

(***************************************************************************)
(* URLs.  urlparse splits a URL into scheme, netloc and path; a URL is     *)
(* modelled by these three components.                                     *)
(***************************************************************************)
Url(s, h, p) == [scheme |-> s, host |-> h, path |-> p]

HomeX == Url("http", "x.test", "/")
PageA == Url("http", "x.test", "/a")
HomeY == Url("https", "y.test", "/")
PageB == Url("https", "y.test", "/b")
FileF == Url("ftp", "x.test", "/f")

URLs == {HomeX, PageA, HomeY, PageB, FileF}

SeedURLs == {HomeX, HomeY, FileF}

\* An href is either an absolute URL or a path relative to the site root.
Abs(u) == [abs |-> TRUE, url |-> u, path |-> ""]
Rel(p) == [abs |-> FALSE, url |-> HomeX, path |-> p]

\* urljoin(base, href): an absolute href replaces the base, a root-relative
\* one keeps the base's scheme and host.
urljoin(base, href) ==
  IF href.abs THEN href.url ELSE Url(base.scheme, base.host, href.path)

\* soup.find_all('a', href=True) of each page, in document order.
Anchors(u) ==
  CASE u = HomeX -> <<Rel("/a"), Abs(HomeY), Abs(FileF), Rel("/a"), Rel("/")>>
    [] u = PageA -> <<Rel("/"), Abs(PageB)>>
    [] u = HomeY -> <<Rel("/b"), Abs(HomeX)>>
    [] u = PageB -> <<Rel("/b"), Abs(PageA)>>
    [] OTHER -> <<>>

\* soup.get_text(separator=' ', strip=True) of each page, as characters.
PageText(u) ==
  CASE u = HomeX -> <<"c", "a", "t", " ", "d", "o", "g", " ", "C", "A", "T">>
    [] u = PageA -> <<"b", "i", "r", "d">>
    [] u = HomeY -> <<"a", "a", "a">>
    [] u = PageB -> <<"d", "o", "g">>
    [] OTHER -> <<>>

KeywordLists == {<<<<"c", "a", "t">>, <<"b", "i", "r", "d">>>>, <<<<"A", "A">>>>}

(***************************************************************************)
(* str.lower and str.count.                                                *)
(***************************************************************************)
LowerChar(c) ==
  CASE c = "A" -> "a"
    [] c = "C" -> "c"
    [] c = "T" -> "t"
    [] OTHER -> c

lower(s) == [i \in 1..Len(s) |-> LowerChar(s[i])]

MatchAt(text, kw, i) ==
  /\ i + Len(kw) - 1 <= Len(text)
  /\ \A k \in 1..Len(kw) : text[i + k - 1] = kw[k]

RECURSIVE CountFrom(_, _, _)
\* Non-overlapping occurrences of kw in text from position i on.
CountFrom(text, kw, i) ==
  IF i + Len(kw) - 1 > Len(text) THEN 0
  ELSE IF MatchAt(text, kw, i) THEN 1 + CountFrom(text, kw, i + Len(kw))
  ELSE CountFrom(text, kw, i + 1)

count(text, kw) == CountFrom(text, kw, 1)

(***************************************************************************)
(* State.                                                                  *)
(***************************************************************************)
VARIABLES
  keywords,        \* argument of search_keywords_across_web
  start_urls,      \* argument of search_keywords_across_web
  max_depth,       \* argument of search_keywords_across_web
  max_pages,       \* argument of search_keywords_across_web
  respect_robots,  \* WebScraper.respect_robots
  is_scraping,     \* WebScraperGUI.is_scraping
  pc,              \* "idle", "called", "running", "fetch", "done"
  visited,         \* local visited
  q,               \* local q, a FIFO of <<url, depth>>
  results,         \* local results
  pages_crawled,   \* local pages_crawled
  cur,             \* locals url, depth of the iteration in progress
  returned,        \* what search_keywords_across_web gave back to its caller
  dequeued,        \* history: every <<url, depth>> taken by q.get(), oldest first
  fetched,         \* history: every get_page call of the run, oldest first
  lastCall,        \* the last can_fetch or get_page call, with its network events
  lastReq,         \* history: the latest HTTP request, and whether a sleep followed
  page_doc,        \* the document that a scrape_* call finds at base_url
  scrape_args,     \* the scrape_* method called, its arguments and max_items
  scraped,         \* what the scrape_* call did and returned
  workers,         \* the scrape_data threads: position, scraper used, data
  frames,          \* the locals of the search_keywords_across_web calls
  gui              \* WebScraperGUI: attributes, widgets and pending callbacks

vars == <<keywords, start_urls, max_depth, max_pages, respect_robots, is_scraping,
          pc, visited, q, results, pages_crawled, cur, returned, dequeued, fetched,
          lastCall, lastReq, page_doc, scrape_args, scraped, workers, frames, gui>>

args == <<keywords, start_urls, max_depth, max_pages, respect_robots, page_doc,
          scrape_args>>

(***************************************************************************)
(* The network oracle.                                                     *)
(***************************************************************************)
\* What rp.read() meets when it retrieves the robots file:
\*   "raises"            urlopen or decode raises (URLError, timeout, bad bytes)
\*   "http_forbidden"    HTTP 401 or 403, which read() turns into disallow_all
\*   "http_missing"      another HTTP 4xx, which read() turns into allow_all
\*   "http_server_error" HTTP 5xx, which read() swallows and parses nothing
\*   "rules_allow"       a robots file whose rules allow the URL for '*'
\*   "rules_deny"        a robots file whose rules disallow the URL for '*'
RobotsOutcomes ==
  {"raises", "http_forbidden", "http_missing", "http_server_error",
   "rules_allow", "rules_deny"}

\* What session.get / raise_for_status / BeautifulSoup meet: a parsed page, or
\* an exception (timeout, network error, non-success status, parse error).
HttpOutcomes == {"ok", "error"}

SafeSchemes == {"http", "https"}

Ev(kind, url) == [kind |-> kind, url |-> url]

NetworkKinds == {"robots_get", "page_get"}

robots_url(url) == Url(url.scheme, url.host, "/robots.txt")

\* rp.read() followed by rp.can_fetch('*', url), when read() does not raise.
RobotFileParser(ro) ==
  CASE ro = "http_forbidden" -> FALSE
    [] ro = "http_missing" -> TRUE
    [] ro = "http_server_error" -> FALSE
    [] ro = "rules_allow" -> TRUE
    [] ro = "rules_deny" -> FALSE

\* met is what the robots retrieval of this call met ("none": no retrieval).
can_fetch(url, ro) ==
  IF ~respect_robots THEN [ret |-> TRUE, met |-> "none", events |-> <<>>]
  ELSE IF ro = "raises"
    THEN [ret |-> TRUE, met |-> ro,
          events |-> <<Ev("robots_get", robots_url(url)), Ev("warn_robots_check", url)>>]
    ELSE [ret |-> RobotFileParser(ro), met |-> ro,
          events |-> <<Ev("robots_get", robots_url(url))>>]

\* Mutation of get_page: the scheme check left out.
get_page_NoSchemeCheck(url, ro, ho) ==
  LET cf == can_fetch(url, ro) IN
    IF ~cf.ret
    THEN [soup |-> FALSE, gate |-> "deny", met |-> cf.met,
          events |-> cf.events \o <<Ev("warn_disallowed", url)>>]
    ELSE IF ho = "ok"
    THEN [soup |-> TRUE, gate |-> "allow", met |-> cf.met,
          events |-> cf.events \o <<Ev("page_get", url), Ev("parse", url), Ev("sleep", url)>>]
    ELSE [soup |-> FALSE, gate |-> "allow", met |-> cf.met,
          events |-> cf.events \o <<Ev("page_get", url), Ev("error_fetch", url)>>]

\* Mutation of get_page: the GET issued whatever can_fetch returned.
get_page_IgnoresCanFetch(url, ro, ho) ==
  IF url.scheme \notin SafeSchemes
  THEN [soup |-> FALSE, gate |-> "unsafe_scheme", met |-> "none",
        events |-> <<Ev("error_scheme", url)>>]
  ELSE LET cf == can_fetch(url, ro) IN
    IF ho = "ok"
    THEN [soup |-> TRUE, gate |-> IF cf.ret THEN "allow" ELSE "deny", met |-> cf.met,
          events |-> cf.events \o <<Ev("page_get", url), Ev("parse", url), Ev("sleep", url)>>]
    ELSE [soup |-> FALSE, gate |-> IF cf.ret THEN "allow" ELSE "deny", met |-> cf.met,
          events |-> cf.events \o <<Ev("page_get", url), Ev("error_fetch", url)>>]

\* Mutation of get_page: the sleep moved into a finally clause.
get_page_SleepsAlways(url, ro, ho) ==
  IF url.scheme \notin SafeSchemes
  THEN [soup |-> FALSE, gate |-> "unsafe_scheme", met |-> "none",
        events |-> <<Ev("error_scheme", url)>>]
  ELSE LET cf == can_fetch(url, ro) IN
    IF ~cf.ret
    THEN [soup |-> FALSE, gate |-> "deny", met |-> cf.met,
          events |-> cf.events \o <<Ev("warn_disallowed", url)>>]
    ELSE IF ho = "ok"
    THEN [soup |-> TRUE, gate |-> "allow", met |-> cf.met,
          events |-> cf.events \o <<Ev("page_get", url), Ev("parse", url), Ev("sleep", url)>>]
    ELSE [soup |-> FALSE, gate |-> "allow", met |-> cf.met,
          events |-> cf.events
                       \o <<Ev("page_get", url), Ev("error_fetch", url), Ev("sleep", url)>>]

\* Mutation of get_page: the sleep left out.
get_page_NeverSleeps(url, ro, ho) ==
  IF url.scheme \notin SafeSchemes
  THEN [soup |-> FALSE, gate |-> "unsafe_scheme", met |-> "none",
        events |-> <<Ev("error_scheme", url)>>]
  ELSE LET cf == can_fetch(url, ro) IN
    IF ~cf.ret
    THEN [soup |-> FALSE, gate |-> "deny", met |-> cf.met,
          events |-> cf.events \o <<Ev("warn_disallowed", url)>>]
    ELSE IF ho = "ok"
    THEN [soup |-> TRUE, gate |-> "allow", met |-> cf.met,
          events |-> cf.events \o <<Ev("page_get", url), Ev("parse", url)>>]
    ELSE [soup |-> FALSE, gate |-> "allow", met |-> cf.met,
          events |-> cf.events \o <<Ev("page_get", url), Ev("error_fetch", url)>>]

\* Mutation of get_page: the except clause returns None without logging.
get_page_SilentFailure(url, ro, ho) ==
  IF url.scheme \notin SafeSchemes
  THEN [soup |-> FALSE, gate |-> "unsafe_scheme", met |-> "none",
        events |-> <<Ev("error_scheme", url)>>]
  ELSE LET cf == can_fetch(url, ro) IN
    IF ~cf.ret
    THEN [soup |-> FALSE, gate |-> "deny", met |-> cf.met,
          events |-> cf.events \o <<Ev("warn_disallowed", url)>>]
    ELSE IF ho = "ok"
    THEN [soup |-> TRUE, gate |-> "allow", met |-> cf.met,
          events |-> cf.events \o <<Ev("page_get", url), Ev("parse", url), Ev("sleep", url)>>]
    ELSE [soup |-> FALSE, gate |-> "allow", met |-> cf.met,
          events |-> cf.events \o <<Ev("page_get", url)>>]

\* soup is TRUE for a parsed document and FALSE for None; gate records what the
\* politeness gate of this call decided.
get_page(url, ro, ho) ==
  IF url.scheme \notin SafeSchemes
  THEN [soup |-> FALSE, gate |-> "unsafe_scheme", met |-> "none",
        events |-> <<Ev("error_scheme", url)>>]
  ELSE LET cf == can_fetch(url, ro) IN
    IF ~cf.ret
    THEN [soup |-> FALSE, gate |-> "deny", met |-> cf.met,
          events |-> cf.events \o <<Ev("warn_disallowed", url)>>]
    ELSE IF ho = "ok"
    THEN [soup |-> TRUE, gate |-> "allow", met |-> cf.met,
          events |-> cf.events \o <<Ev("page_get", url), Ev("parse", url), Ev("sleep", url)>>]
    ELSE [soup |-> FALSE, gate |-> "allow", met |-> cf.met,
          events |-> cf.events \o <<Ev("page_get", url), Ev("error_fetch", url)>>]

NoCall ==
  [op |-> "none", url |-> HomeX, ret |-> FALSE, gate |-> "none", met |-> "none",
   events |-> <<>>]

GetPageCall(url, page) ==
  [op |-> "get_page", url |-> url, ret |-> page.soup, gate |-> page.gate,
   met |-> page.met, events |-> page.events]

CanFetchCall(url, cf) ==
  [op |-> "can_fetch", url |-> url, ret |-> cf.ret, gate |-> "none",
   met |-> cf.met, events |-> cf.events]

\* kind is "none" until the first request; ok is set by the parse that follows
\* a page GET, paused by the sleep that follows it.
NoRequest == [kind |-> "none", ok |-> FALSE, paused |-> FALSE]

Advance(lr, e) ==
  CASE e.kind \in NetworkKinds -> [kind |-> e.kind, ok |-> FALSE, paused |-> FALSE]
    [] e.kind = "parse" -> [lr EXCEPT !.ok = TRUE]
    [] e.kind = "sleep" -> [lr EXCEPT !.paused = TRUE]
    [] OTHER -> lr

RECURSIVE After(_, _)
\* lastReq once the events of a call have happened.
After(lr, events) ==
  IF events = <<>> THEN lr ELSE After(Advance(lr, Head(events)), Tail(events))

(***************************************************************************)
(* The four scrape_* methods.                                              *)
(*                                                                         *)
(* A document is the sequence of its elements in document order.  Of an    *)
(* element the model keeps the selectors that match it, the length of its  *)
(* stripped text, the lengths of the stripped texts of the first heading   *)
(* (h1, h2, h3) and of the first p inside it, -1 where there is none, and  *)
(* whether it holds an anchor or image whose address urljoin rejects.      *)
(***************************************************************************)
Elem(sel, len, head, para, bad) ==
  [sel |-> sel, len |-> len, head |-> head, para |-> para, bad |-> bad]

\* <div class="news-item"><h2/><p/></div>, <article class="post"><p/></article>,
\* <span class="status" data-product>, <p class="story">,
\* <li class="post item"><h3/><a href="http://["/></li> and a long
\* <div class="article item tweet"><h1/><p/></div>.
ElementKinds ==
  {Elem({"div", ".news-item"}, 30, 12, 18, FALSE),
   Elem({"article", ".post"}, 21, -1, 21, FALSE),
   Elem({"span", ".status", "[data-product]"}, 20, -1, -1, FALSE),
   Elem({"p", ".story"}, 5, -1, -1, FALSE),
   Elem({"li", ".post", ".item"}, 30, 10, -1, TRUE),
   Elem({"div", ".article", ".item", ".tweet"}, 900, 510, 390, FALSE)}

Docs == UNION {[1..k -> ElementKinds] : k \in 0..MaxElems}

Profiles == {"news", "products", "social", "generic"}

\* The custom_selectors arguments tried: none, and two lists of three.
CustomLists == {<<>>, <<".story", "article", "div">>, <<"td", ".item", ".status">>}

\* The default selector list of each method (lines 76-78, 118-120, 161-163, 202).
DefaultSelectors(profile) ==
  CASE profile = "news" ->
         <<"article", ".article", ".news-item", ".post", "div[class*=article]",
           ".story", ".news-story">>
    [] profile = "products" ->
         <<".product", ".item", "[data-product]", ".product-item", ".product-card",
           ".listing-item">>
    [] profile = "social" ->
         <<".tweet", ".post", ".status", "[data-post]", ".message", ".update">>
    [] profile = "generic" -> <<"p", "div", "span", "h1", "h2", "h3", "li", "td">>

\* custom_selectors if custom_selectors else [...]
Selectors(profile, custom) == IF custom # <<>> THEN custom ELSE DefaultSelectors(profile)

\* soup.select(selector): the places of the matching elements, in document order.
select(doc, selector) ==
  SelectSeq([i \in 1..Len(doc) |-> i], LAMBDA i : selector \in doc[i].sel)

RECURSIVE Chosen_Merged(_, _)
\* Mutation of the selector loop: no break, the matches of every selector kept.
Chosen_Merged(doc, selectors) ==
  IF selectors = <<>> THEN <<>>
  ELSE select(doc, Head(selectors)) \o Chosen_Merged(doc, Tail(selectors))

RECURSIVE Chosen(_, _)
\* The selector loop: elements is what the first selector that finds any finds.
Chosen(doc, selectors) ==
  IF selectors = <<>> THEN <<>>
  ELSE IF select(doc, Head(selectors)) # <<>> THEN select(doc, Head(selectors))
  ELSE Chosen(doc, Tail(selectors))

\* Mutation of the slice: no truncation.
Take_All(elements, n) == elements

\* elements[:n], for n >= 0.
Take(elements, n) == SubSeq(elements, 1, IF n < Len(elements) THEN n ELSE Len(elements))

\* The text length under which scrape_generic_content skips an element.
MinTextLen == 20

\* Whether the loop body raises for the element at place i: urljoin is
\* called by the news and products bodies, by the generic body once the text
\* is long enough, and not at all by the social body.
Raises(profile, doc, i) ==
  /\ doc[i].bad
  /\ profile # "social"
  /\ profile = "generic" => doc[i].len > MinTextLen

\* Whether the loop body reaches its append for the element at place i.
Appends(profile, doc, i) ==
  /\ ~Raises(profile, doc, i)
  /\ profile = "generic" => doc[i].len > MinTextLen

\* text[:cap]
Truncate(len, cap) == IF len > cap THEN cap ELSE len

\* The caps of summary, content and text, and the lengths of the
\* placeholders "No title" and "No name".
SummaryCap == 200
ContentCap == 300
TextCap == 500
NoTitleLen == 8
NoNameLen == 7

\* The length of the title or name field of the record of element e; 0 for
\* the profiles whose records have no such field.
HeadField(profile, e) ==
  CASE profile = "news" -> IF e.head >= 0 THEN e.head ELSE NoTitleLen
    [] profile = "products" -> IF e.head >= 0 THEN e.head ELSE NoNameLen
    [] OTHER -> 0

\* The length of the summary, content or text field of the record of element
\* e; 0 for the products profile, whose records have no such field.
BodyField(profile, e) ==
  CASE profile = "news" -> IF e.para >= 0 THEN Truncate(e.para, SummaryCap) ELSE 0
    [] profile = "social" -> IF e.para >= 0 THEN Truncate(e.para, ContentCap) ELSE 0
    [] profile = "generic" -> Truncate(e.len, TextCap)
    [] OTHER -> 0

RecordType(profile) ==
  CASE profile = "news" -> "news"
    [] profile = "products" -> "product"
    [] profile = "social" -> "social"
    [] profile = "generic" -> "generic"

RECURSIVE ElementLoop_AbortsOnError(_, _, _, _)
\* Mutation of the for-loop: the first element that raises ends the loop.
ElementLoop_AbortsOnError(profile, doc, elements, base_url) ==
  IF elements = <<>> THEN [records |-> <<>>, events |-> <<>>]
  ELSE LET i == Head(elements)
           rest == ElementLoop_AbortsOnError(profile, doc, Tail(elements), base_url)
       IN IF Raises(profile, doc, i)
          THEN [records |-> <<>>, events |-> <<Ev("error_parse", base_url)>>]
          ELSE IF Appends(profile, doc, i)
          THEN [records |-> <<[type |-> RecordType(profile), elem |-> i,
                               source |-> base_url,
                               head |-> HeadField(profile, doc[i]),
                               body |-> BodyField(profile, doc[i])]>> \o rest.records,
                events |-> rest.events]
          ELSE rest

RECURSIVE ElementLoop(_, _, _, _)
\* The for-loop over the elements: the records appended and the errors logged.
ElementLoop(profile, doc, elements, base_url) ==
  IF elements = <<>> THEN [records |-> <<>>, events |-> <<>>]
  ELSE LET i == Head(elements)
           rest == ElementLoop(profile, doc, Tail(elements), base_url)
       IN IF Raises(profile, doc, i)
          THEN [records |-> rest.records,
                events |-> <<Ev("error_parse", base_url)>> \o rest.events]
          ELSE IF Appends(profile, doc, i)
          THEN [records |-> <<[type |-> RecordType(profile), elem |-> i,
                               source |-> base_url,
                               head |-> HeadField(profile, doc[i]),
                               body |-> BodyField(profile, doc[i])]>> \o rest.records,
                events |-> rest.events]
          ELSE rest

\* A scrape_* method once get_page has returned page.
scrape(a, doc, page) ==
  IF ~page.soup
  THEN [state |-> "returned", elements |-> <<>>, records |-> <<>>, events |-> page.events]
  ELSE LET elements == Take(Chosen(doc, Selectors(a.profile, a.custom_selectors)),
                            a.max_items)
           loop == ElementLoop(a.profile, doc, elements, a.base_url)
       IN [state |-> "returned", elements |-> elements, records |-> loop.records,
           events |-> page.events \o loop.events]

NoScrape ==
  [profile |-> "generic", custom_selectors |-> <<>>, max_items |-> 0, base_url |-> HomeX]

NotScraped == [state |-> "none", elements |-> <<>>, records |-> <<>>, events |-> <<>>]

(***************************************************************************)
(* WebScraperGUI.  The handlers and the callbacks given to root.after run  *)
(* on the main thread, one at a time; each scrape_data runs on a thread of *)
(* its own.                                                                *)
(***************************************************************************)
\* The threads that start_scraping can launch in one behaviour.
Workers == {"w1", "w2"}

\* pc: "unborn", "init" (line 501), "call" (line 513), "running" (the loop of
\* line 237), "post" (line 524), "dead".  on: the WebScraper the call runs on,
\* named after the thread that made it.  finished: its scraping_finished ran.
NoWorker ==
  [pc |-> "unborn", on |-> "none", data |-> <<>>, outcome |-> "none", finished |-> FALSE]

NoFrame == [visited |-> {}, q |-> <<>>, results |-> <<>>, pages_crawled |-> 0]

\* The attributes after __init__ and create_widgets; search_mode_var is
\* "keyword_web" or "normal".
NewGui(search_mode) ==
  [scraper |-> "none", scraped_data |-> <<>>, tree |-> <<>>,
   start_button |-> "normal", stop_button |-> "disabled",
   search_mode |-> search_mode, after |-> <<>>]

\* max_pages=30 in the call of line 514.
GuiMaxPages == 30

(***************************************************************************)
(* search_keywords_across_web.                                             *)
(***************************************************************************)
RECURSIVE KeywordRecords_CaseSensitive(_, _, _)
\* Mutation of the keyword loop: the page text is not lowered.
KeywordRecords_CaseSensitive(url, text, kws) ==
  IF kws = <<>> THEN <<>>
  ELSE LET kw == Head(kws)
           n == count(text, lower(kw))
           rest == KeywordRecords_CaseSensitive(url, text, Tail(kws))
       IN IF n > 0
          THEN <<[url |-> url, keyword |-> kw, count |-> n, type |-> "keyword_search"]>>
               \o rest
          ELSE rest

RECURSIVE KeywordRecords(_, _, _)
\* The records the for-loop over keywords appends for one page.
KeywordRecords(url, text, kws) ==
  IF kws = <<>> THEN <<>>
  ELSE LET kw == Head(kws)
           n == count(lower(text), lower(kw))
           rest == KeywordRecords(url, text, Tail(kws))
       IN IF n > 0
          THEN <<[url |-> url, keyword |-> kw, count |-> n, type |-> "keyword_search"]>>
               \o rest
          ELSE rest

RECURSIVE LinkEntries_NoVisitedTest(_, _, _, _)
\* Mutation of the anchor loop: the test link not in visited dropped.
LinkEntries_NoVisitedTest(url, depth, anchors, vis) ==
  IF anchors = <<>> THEN <<>>
  ELSE LET link == urljoin(url, Head(anchors))
           rest == LinkEntries_NoVisitedTest(url, depth, Tail(anchors), vis)
       IN IF link.scheme \in SafeSchemes
          THEN <<<<link, depth + 1>>>> \o rest
          ELSE rest

RECURSIVE LinkEntries(_, _, _, _)
\* The entries the for-loop over the anchors puts on the queue.
LinkEntries(url, depth, anchors, vis) ==
  IF anchors = <<>> THEN <<>>
  ELSE LET link == urljoin(url, Head(anchors))
           rest == LinkEntries(url, depth, Tail(anchors), vis)
       IN IF link.scheme \in SafeSchemes /\ link \notin vis
          THEN <<<<link, depth + 1>>>> \o rest
          ELSE rest

\* Mutation of the expansion test: depth <= max_depth.
Expansion_OffByOne(url, depth, vis) ==
  IF depth <= max_depth THEN LinkEntries(url, depth, Anchors(url), vis) ELSE <<>>

Expansion(url, depth, vis) ==
  IF depth < max_depth THEN LinkEntries(url, depth, Anchors(url), vis) ELSE <<>>

SeedEntries(urls) == [i \in 1..Len(urls) |-> <<urls[i], 0>>]

\* Mutation of q.put: a LIFO, new entries in front of the pending ones.
QPut_AtFront(qq, entries) == entries \o qq

\* q.put of each entry in turn: a FIFO takes them at its tail.
QPut(qq, entries) == qq \o entries

\* Mutations of the loop test: the page budget dropped, or tested with <=.
LoopGuard_IgnoresBudget == q # <<>>

LoopGuard_OffByOne == q # <<>> /\ pages_crawled <= max_pages

LoopGuard == q # <<>> /\ pages_crawled < max_pages

\* Mutations of the discard test: one of its two conditions dropped.
Skip_IgnoresVisited(url, depth) == depth > max_depth

Skip_IgnoresDepth(url, depth) == url \in visited

Skip(url, depth) == url \in visited \/ depth > max_depth

SeqsUpTo(S, n) == UNION {[1..k -> S] : k \in 0..n}

Init ==
  /\ keywords \in KeywordLists
  /\ start_urls \in SeqsUpTo(SeedURLs, MaxSeeds)
  /\ max_depth \in -1..MaxDepthArg
  /\ max_pages \in 0..MaxPagesArg
  /\ respect_robots \in BOOLEAN
  /\ is_scraping = FALSE
  /\ pc = "idle"
  /\ visited = {}
  /\ q = <<>>
  /\ results = <<>>
  /\ pages_crawled = 0
  /\ cur = <<HomeX, 0>>
  /\ returned = [kind |-> "none", value |-> <<>>]
  /\ dequeued = <<>>
  /\ fetched = <<>>
  /\ lastCall = NoCall
  /\ lastReq = NoRequest
  /\ page_doc = <<>>
  /\ scrape_args = NoScrape
  /\ scraped = NotScraped
  /\ workers = [w \in Workers |-> NoWorker]
  /\ frames = [k \in Workers |-> NoFrame]
  /\ gui = NewGui("normal")

\* WebScraperGUI.start_scraping: the worker it launches runs the traversal.
start_scraping ==
  /\ ~is_scraping
  /\ pc = "idle"
  /\ is_scraping' = TRUE
  /\ pc' = "called"
  /\ UNCHANGED <<args, scraped, workers, frames, gui, visited, q, results, pages_crawled, cur, returned, dequeued,
                 fetched, lastCall, lastReq>>

\* WebScraperGUI.stop_scraping: the Stop button, enabled while is_scraping.
stop_scraping ==
  /\ is_scraping
  /\ is_scraping' = FALSE
  /\ UNCHANGED <<args, scraped, workers, frames, gui, pc, visited, q, results, pages_crawled, cur, returned,
                 dequeued, fetched, lastCall, lastReq>>

\* Lines 230-235: fresh locals, the seeds on the queue at depth 0.
Seed ==
  /\ pc = "called"
  /\ visited' = {}
  /\ results' = <<>>
  /\ q' = QPut(<<>>, SeedEntries(start_urls))
  /\ pages_crawled' = 0
  /\ pc' = "running"
  /\ lastReq' = NoRequest
  /\ UNCHANGED <<args, scraped, workers, frames, gui, is_scraping, cur, returned, dequeued, fetched, lastCall>>

\* Mutation of Dequeue: a discarded entry counts as a crawled page.
Dequeue_DiscardCounts ==
  /\ pc = "running"
  /\ LoopGuard
  /\ LET url == Head(q)[1]
         depth == Head(q)[2]
     IN /\ q' = Tail(q)
        /\ cur' = Head(q)
        /\ dequeued' = Append(dequeued, Head(q))
        /\ IF Skip(url, depth)
           THEN /\ pc' = "running"
                /\ visited' = visited
                /\ pages_crawled' = pages_crawled + 1
           ELSE /\ pc' = "fetch"
                /\ visited' = visited \cup {url}
                /\ pages_crawled' = pages_crawled
  /\ UNCHANGED <<args, scraped, workers, frames, gui, is_scraping, results, returned, fetched, lastCall, lastReq>>

\* Lines 237-241: the loop test, q.get(), the discard test, visited.add(url).
Dequeue ==
  /\ pc = "running"
  /\ LoopGuard
  /\ LET url == Head(q)[1]
         depth == Head(q)[2]
     IN /\ q' = Tail(q)
        /\ cur' = Head(q)
        /\ dequeued' = Append(dequeued, Head(q))
        /\ IF Skip(url, depth)
           THEN /\ pc' = "running"
                /\ visited' = visited
           ELSE /\ pc' = "fetch"
                /\ visited' = visited \cup {url}
  /\ UNCHANGED <<args, scraped, workers, frames, gui, is_scraping, results, pages_crawled, returned, fetched,
                 lastCall, lastReq>>

\* Mutation of Fetch: pages_crawled incremented before the test of soup.
Fetch_CountsFailures ==
  /\ pc = "fetch"
  /\ \E ro \in RobotsOutcomes, ho \in HttpOutcomes :
       LET url == cur[1]
           depth == cur[2]
           page == get_page(url, ro, ho)
       IN /\ lastCall' = GetPageCall(url, page)
          /\ lastReq' = After(lastReq, page.events)
          /\ fetched' = Append(fetched, [url |-> url, depth |-> depth, ok |-> page.soup])
          /\ pages_crawled' = pages_crawled + 1
          /\ IF ~page.soup
             THEN UNCHANGED <<results, q>>
             ELSE /\ results' = results \o KeywordRecords(url, PageText(url), keywords)
                  /\ q' = QPut(q, Expansion(url, depth, visited))
  /\ pc' = "running"
  /\ UNCHANGED <<args, scraped, workers, frames, gui, is_scraping, visited, cur, returned, dequeued>>

\* Lines 242-261: get_page, then either continue or count, expand and increment.
Fetch ==
  /\ pc = "fetch"
  /\ \E ro \in RobotsOutcomes, ho \in HttpOutcomes :
       LET url == cur[1]
           depth == cur[2]
           page == get_page(url, ro, ho)
       IN /\ lastCall' = GetPageCall(url, page)
          /\ lastReq' = After(lastReq, page.events)
          /\ fetched' = Append(fetched, [url |-> url, depth |-> depth, ok |-> page.soup])
          /\ IF ~page.soup
             THEN UNCHANGED <<results, q, pages_crawled>>
             ELSE /\ results' = results \o KeywordRecords(url, PageText(url), keywords)
                  /\ q' = QPut(q, Expansion(url, depth, visited))
                  /\ pages_crawled' = pages_crawled + 1
  /\ pc' = "running"
  /\ UNCHANGED <<args, scraped, workers, frames, gui, is_scraping, visited, cur, returned, dequeued>>

\* Lines 237 and 262: the loop test fails and the results are returned.
Return ==
  /\ pc = "running"
  /\ ~LoopGuard
  /\ pc' = "done"
  /\ returned' = [kind |-> "list", value |-> results]
  /\ UNCHANGED <<args, scraped, workers, frames, gui, is_scraping, visited, q, results, pages_crawled, cur, dequeued,
                 fetched, lastCall, lastReq>>

Next == start_scraping \/ stop_scraping \/ Seed \/ Dequeue \/ Fetch \/ Return

Spec == Init /\ [][Next]_vars

\* Termination does not depend on the keywords: one keyword list is enough.
FairInit ==
  /\ Init
  /\ keywords = <<<<"c", "a", "t">>, <<"b", "i", "r", "d">>>>

\* The loop runs on its own thread and every fetch returns (timeout=10).
FairSpec ==
  /\ FairInit
  /\ [][Next]_vars
  /\ WF_vars(Seed) /\ WF_vars(Dequeue) /\ WF_vars(Fetch) /\ WF_vars(Return)

(***************************************************************************)
(* Direct calls of the two public methods, as the single-page operations   *)
(* make them (each scrape_* method starts with get_page(base_url)).        *)
(***************************************************************************)
CallCanFetch ==
  /\ \E url \in URLs, ro \in RobotsOutcomes :
       /\ lastCall' = CanFetchCall(url, can_fetch(url, ro))
       /\ lastReq' = After(lastReq, can_fetch(url, ro).events)
  /\ UNCHANGED <<args, scraped, workers, frames, gui, is_scraping, pc, visited, q, results, pages_crawled, cur,
                 returned, dequeued, fetched>>

CallGetPage ==
  /\ \E url \in URLs, ro \in RobotsOutcomes, ho \in HttpOutcomes :
       /\ lastCall' = GetPageCall(url, get_page(url, ro, ho))
       /\ lastReq' = After(lastReq, get_page(url, ro, ho).events)
  /\ UNCHANGED <<args, scraped, workers, frames, gui, is_scraping, pc, visited, q, results, pages_crawled, cur,
                 returned, dequeued, fetched>>

ApiNext == CallCanFetch \/ CallGetPage

\* No traversal is called here: its arguments are fixed, the scraper's vary.
ApiInit ==
  /\ Init
  /\ start_urls = <<>>
  /\ max_depth = 1
  /\ max_pages = MaxPagesArg

ApiSpec == ApiInit /\ [][ApiNext]_vars

(***************************************************************************)
(* A single-page extraction: one call of a scrape_* method.                *)
(***************************************************************************)
Scrape ==
  /\ scraped.state = "none"
  /\ \E ro \in RobotsOutcomes, ho \in HttpOutcomes :
       LET page == get_page(scrape_args.base_url, ro, ho)
       IN /\ lastCall' = GetPageCall(scrape_args.base_url, page)
          /\ lastReq' = After(lastReq, page.events)
          /\ scraped' = scrape(scrape_args, page_doc, page)
  /\ UNCHANGED <<args, workers, frames, gui, is_scraping, pc, visited, q, results,
                 pages_crawled, cur, returned, dequeued, fetched>>

ScrapeInit ==
  /\ keywords = <<<<"c", "a", "t">>, <<"b", "i", "r", "d">>>>
  /\ start_urls = <<>>
  /\ max_depth = 1
  /\ max_pages = MaxPagesArg
  /\ respect_robots \in BOOLEAN
  /\ is_scraping = FALSE
  /\ pc = "idle"
  /\ visited = {}
  /\ q = <<>>
  /\ results = <<>>
  /\ pages_crawled = 0
  /\ cur = <<HomeX, 0>>
  /\ returned = [kind |-> "none", value |-> <<>>]
  /\ dequeued = <<>>
  /\ fetched = <<>>
  /\ lastCall = NoCall
  /\ lastReq = NoRequest
  /\ page_doc \in Docs
  /\ scrape_args \in [profile : Profiles, custom_selectors : CustomLists,
                       max_items : 0..MaxItems, base_url : {HomeX}]
  /\ scraped = NotScraped
  /\ workers = [w \in Workers |-> NoWorker]
  /\ frames = [k \in Workers |-> NoFrame]
  /\ gui = NewGui("normal")

ScrapeSpec == ScrapeInit /\ [][Scrape]_vars

(***************************************************************************)
(* The desktop application: Start, Stop, Clear, the worker threads and the *)
(* main loop.                                                              *)
(***************************************************************************)
\* Mutation of the locals: the traversal state kept on the WebScraper that
\* the call runs on (self.scraper, until the call has read it).
FrameOf_OnScraper(w) == IF workers[w].on = "none" THEN gui.scraper ELSE workers[w].on

\* visited, results, q and pages_crawled are locals of the call (lines
\* 230-235): each call of each thread has its own.
FrameOf(w) == w

\* A callback given to root.after(0, ...).
Callback(fn, w, data) == [fn |-> fn, w |-> w, data |-> data]

\* start_scraping (lines 467-490) with a valid URL in url_var.
StartButton ==
  /\ ~is_scraping
  /\ \E w \in Workers :
       /\ workers[w].pc = "unborn"
       /\ workers' = [workers EXCEPT ![w].pc = "init"]
  /\ is_scraping' = TRUE
  /\ gui' = [gui EXCEPT !.start_button = "disabled", !.stop_button = "normal"]
  /\ UNCHANGED <<args, scraped, frames, pc, visited, q, results, pages_crawled, cur,
                 returned, dequeued, fetched, lastCall, lastReq>>

\* stop_scraping (lines 492-498), by the Stop button while it is enabled.
StopButton ==
  /\ gui.stop_button = "normal"
  /\ is_scraping' = FALSE
  /\ gui' = [gui EXCEPT !.start_button = "normal", !.stop_button = "disabled"]
  /\ UNCHANGED <<args, scraped, workers, frames, pc, visited, q, results, pages_crawled,
                 cur, returned, dequeued, fetched, lastCall, lastReq>>

\* clear_results (lines 595-601).
clear_results ==
  /\ gui' = [gui EXCEPT !.tree = <<>>, !.scraped_data = <<>>]
  /\ UNCHANGED <<args, scraped, workers, frames, is_scraping, pc, visited, q, results,
                 pages_crawled, cur, returned, dequeued, fetched, lastCall, lastReq>>

\* scrape_data, lines 501-512: the settings are read and self.scraper is set.
WorkerInit(w) ==
  /\ workers[w].pc = "init"
  /\ workers' = [workers EXCEPT ![w].pc = "call"]
  /\ gui' = [gui EXCEPT !.scraper = w]
  /\ UNCHANGED <<args, scraped, frames, is_scraping, pc, visited, q, results,
                 pages_crawled, cur, returned, dequeued, fetched, lastCall, lastReq>>

\* Mutation of WorkerRaise: no finally clause.
WorkerRaise_NoFinally(w) ==
  /\ workers[w].pc = "init"
  /\ workers' = [workers EXCEPT ![w].pc = "dead", ![w].outcome = "raised"]
  /\ gui' = [gui EXCEPT !.after = @ \o <<Callback("log_message", w, <<>>),
                                         Callback("showerror", w, <<>>)>>]
  /\ UNCHANGED <<args, scraped, frames, is_scraping, pc, visited, q, results,
                 pages_crawled, cur, returned, dequeued, fetched, lastCall, lastReq>>

\* scrape_data when reading the settings raises (a Spinbox text that is no
\* number): the except clause of lines 524-527, then the finally of line 529.
WorkerRaise(w) ==
  /\ workers[w].pc = "init"
  /\ workers' = [workers EXCEPT ![w].pc = "dead", ![w].outcome = "raised"]
  /\ gui' = [gui EXCEPT !.after = @ \o <<Callback("log_message", w, <<>>),
                                         Callback("showerror", w, <<>>),
                                         Callback("scraping_finished", w, <<>>)>>]
  /\ UNCHANGED <<args, scraped, frames, is_scraping, pc, visited, q, results,
                 pages_crawled, cur, returned, dequeued, fetched, lastCall, lastReq>>

\* Lines 513-522: self.scraper is read and the method chosen.  The keyword
\* search sets up its locals (lines 230-235); a scrape_* method runs whole.
WorkerCall(w) ==
  /\ workers[w].pc = "call"
  /\ IF gui.search_mode = "keyword_web" /\ keywords # <<>>
     THEN /\ workers' = [workers EXCEPT ![w].pc = "running", ![w].on = gui.scraper]
          /\ frames' = [frames EXCEPT ![FrameOf(w)] =
                          [visited |-> {}, q |-> QPut(<<>>, SeedEntries(start_urls)),
                           results |-> <<>>, pages_crawled |-> 0]]
     ELSE /\ \E ro \in RobotsOutcomes, ho \in HttpOutcomes :
               workers' = [workers EXCEPT
                 ![w].pc = "post", ![w].on = gui.scraper,
                 ![w].data = scrape(scrape_args, page_doc,
                                    get_page(scrape_args.base_url, ro, ho)).records]
          /\ UNCHANGED frames
  /\ UNCHANGED <<args, scraped, gui, is_scraping, pc, visited, q, results,
                 pages_crawled, cur, returned, dequeued, fetched, lastCall, lastReq>>

\* One pass of the while loop (lines 237-261) on the locals f, get_page
\* having returned a document or None.
Iteration(f, soup) ==
  LET url == Head(f.q)[1]
      depth == Head(f.q)[2]
  IN IF url \in f.visited \/ depth > max_depth
     THEN [f EXCEPT !.q = Tail(f.q)]
     ELSE IF ~soup
     THEN [f EXCEPT !.q = Tail(f.q), !.visited = @ \cup {url}]
     ELSE [visited |-> f.visited \cup {url},
           q |-> QPut(Tail(f.q), Expansion(url, depth, f.visited \cup {url})),
           results |-> f.results \o KeywordRecords(url, PageText(url), keywords),
           pages_crawled |-> f.pages_crawled + 1]

\* The loop test of line 237 on the locals f.
Looping(f) == f.q # <<>> /\ f.pages_crawled < max_pages

WorkerLoop(w) ==
  /\ workers[w].pc = "running"
  /\ Looping(frames[FrameOf(w)])
  /\ \E ro \in RobotsOutcomes, ho \in HttpOutcomes :
       frames' = [frames EXCEPT ![FrameOf(w)] =
                    Iteration(@, get_page(Head(@.q)[1], ro, ho).soup)]
  /\ UNCHANGED <<args, scraped, workers, gui, is_scraping, pc, visited, q, results,
                 pages_crawled, cur, returned, dequeued, fetched, lastCall, lastReq>>

\* Line 262: the loop is over and results is returned to scrape_data.
WorkerReturn(w) ==
  /\ workers[w].pc = "running"
  /\ ~Looping(frames[FrameOf(w)])
  /\ workers' = [workers EXCEPT ![w].pc = "post", ![w].data = frames[FrameOf(w)].results]
  /\ UNCHANGED <<args, scraped, frames, gui, is_scraping, pc, visited, q, results,
                 pages_crawled, cur, returned, dequeued, fetched, lastCall, lastReq>>

\* Lines 523 and 529: update_results(data) and scraping_finished are handed
\* to the main loop and the thread ends.
WorkerPost(w) ==
  /\ workers[w].pc = "post"
  /\ workers' = [workers EXCEPT
       ![w].pc = "dead",
       ![w].outcome = IF workers[w].data = <<>> THEN "nothing" ELSE "records"]
  /\ gui' = [gui EXCEPT !.after = @ \o <<Callback("update_results", w, workers[w].data),
                                         Callback("scraping_finished", w, <<>>)>>]
  /\ UNCHANGED <<args, scraped, frames, is_scraping, pc, visited, q, results,
                 pages_crawled, cur, returned, dequeued, fetched, lastCall, lastReq>>

\* update_results (lines 538-593): nothing for empty data; else the tree is
\* emptied, scraped_data set and a row inserted per item while is_scraping.
update_results(g, data) ==
  IF data = <<>> THEN g
  ELSE [g EXCEPT !.scraped_data = data,
                 !.tree = IF is_scraping THEN data ELSE <<>>]

\* scraping_finished (lines 531-536), the widgets' part.
scraping_finished(g) == [g EXCEPT !.start_button = "normal", !.stop_button = "disabled"]

\* The main loop runs the oldest pending callback.
MainLoop ==
  /\ gui.after # <<>>
  /\ LET cb == Head(gui.after)
         g == [gui EXCEPT !.after = Tail(gui.after)]
     IN CASE cb.fn = "update_results" ->
               /\ gui' = update_results(g, cb.data)
               /\ UNCHANGED <<is_scraping, workers>>
          [] cb.fn = "scraping_finished" ->
               /\ gui' = scraping_finished(g)
               /\ is_scraping' = FALSE
               /\ workers' = [workers EXCEPT ![cb.w].finished = TRUE]
          [] OTHER ->
               /\ gui' = g
               /\ UNCHANGED <<is_scraping, workers>>
  /\ UNCHANGED <<args, scraped, frames, pc, visited, q, results, pages_crawled, cur,
                 returned, dequeued, fetched, lastCall, lastReq>>

WorkerStep(w) ==
  \/ WorkerInit(w)
  \/ WorkerRaise(w)
  \/ WorkerCall(w)
  \/ WorkerLoop(w)
  \/ WorkerReturn(w)
  \/ WorkerPost(w)

GuiNext ==
  \/ StartButton
  \/ StopButton
  \/ clear_results
  \/ MainLoop
  \/ \E w \in Workers : WorkerStep(w)

\* A news page of two articles behind the URL; the keyword search is called
\* with [url], max_depth=1 and max_pages=30.
GuiInit ==
  /\ keywords = <<<<"c", "a", "t">>, <<"b", "i", "r", "d">>>>
  /\ start_urls = <<HomeX>>
  /\ max_depth = 1
  /\ max_pages = GuiMaxPages
  /\ respect_robots = TRUE
  /\ is_scraping = FALSE
  /\ pc = "idle"
  /\ visited = {}
  /\ q = <<>>
  /\ results = <<>>
  /\ pages_crawled = 0
  /\ cur = <<HomeX, 0>>
  /\ returned = [kind |-> "none", value |-> <<>>]
  /\ dequeued = <<>>
  /\ fetched = <<>>
  /\ lastCall = NoCall
  /\ lastReq = NoRequest
  /\ page_doc = <<Elem({"article", ".post"}, 21, -1, 21, FALSE),
                  Elem({"article", ".post"}, 21, -1, 21, FALSE)>>
  /\ scrape_args = [profile |-> "news", custom_selectors |-> <<>>, max_items |-> 1,
                    base_url |-> HomeX]
  /\ scraped = NotScraped
  /\ workers = [w \in Workers |-> NoWorker]
  /\ frames = [k \in Workers |-> NoFrame]
  /\ \E mode \in {"keyword_web", "normal"} : gui = NewGui(mode)

GuiSpec == GuiInit /\ [][GuiNext]_vars

\* Threads and the main loop keep running, and every fetch returns.
FairGuiSpec ==
  /\ GuiSpec
  /\ WF_vars(MainLoop)
  /\ \A w \in Workers : WF_vars(WorkerStep(w))

(***************************************************************************)
(* Properties of the traversal.                                            *)
(***************************************************************************)
Urls(s) == {s[i].url : i \in 1..Len(s)}

NoUrlTwice(s) == \A i, j \in 1..Len(s) : i # j => s[i].url # s[j].url

\* C1: in a run no URL is passed to get_page twice; every visited.add adds a
\* URL that was not in visited yet, at dequeue time and so before the fetch of
\* that URL; hence a URL whose fetch failed is not fetched again.
C1_FetchedOnce ==
  /\ [](/\ NoUrlTwice(fetched)
        /\ Urls(fetched) \subseteq visited
        /\ (pc = "fetch" => cur[1] \in visited /\ cur[1] \notin Urls(fetched)))
  /\ [][/\ (pc = "running" /\ pc' = "fetch"
             => cur'[1] \notin visited /\ visited' = visited \cup {cur'[1]})
        /\ (visited' # visited => pc = "running" /\ pc' = "fetch")]_vars

\* A URL whose fetch failed was dequeued again and discarded, not refetched.
C1_Witness ==
  /\ pc = "done"
  /\ \E i \in 1..Len(fetched) :
       /\ ~fetched[i].ok
       /\ Cardinality({k \in 1..Len(dequeued) : dequeued[k][1] = fetched[i].url}) >= 2

\* C2: pages_crawled never exceeds max_pages, and once it has reached
\* max_pages the run takes no further entry from the queue and fetches nothing.
C2_PageBudget ==
  /\ [](pages_crawled <= max_pages)
  /\ [][(pc \in {"running", "fetch"} /\ pages_crawled >= max_pages)
          => UNCHANGED <<q, dequeued, fetched, visited>>]_vars

\* The budget, not the empty queue, ended the run.
C2_Witness ==
  /\ pc = "done"
  /\ max_pages > 0
  /\ pages_crawled = max_pages
  /\ q # <<>>

\* C3: every URL passed to get_page was dequeued with a depth of at most
\* max_depth.
C3_FetchDepth ==
  \A i \in 1..Len(fetched) :
    /\ fetched[i].depth <= max_depth
    /\ \E k \in 1..Len(dequeued) : dequeued[k] = <<fetched[i].url, fetched[i].depth>>

\* A page was fetched at depth max_depth > 0.
C3_Witness ==
  /\ max_depth > 0
  /\ \E i \in 1..Len(fetched) : fetched[i].depth = max_depth /\ fetched[i].ok

\* C4: the queue is FIFO and seeded first: the depths of the dequeued entries
\* never decrease, and the seeds are the first entries dequeued, in the order
\* in which they were given.
C4_Fifo ==
  /\ \A i, j \in 1..Len(dequeued) : i < j => dequeued[i][2] <= dequeued[j][2]
  /\ \A i \in 1..Len(dequeued) :
       i <= Len(start_urls) => dequeued[i] = <<start_urls[i], 0>>

\* Two seeds, then entries of depth 1 and of depth 2, have been dequeued.
C4_Witness ==
  /\ Len(start_urls) = 2
  /\ \E i, j \in 1..Len(dequeued) : dequeued[i][2] = 1 /\ dequeued[j][2] = 2

(***************************************************************************)
(* Properties of the politeness gate and of the run as a whole.            *)
(***************************************************************************)
Kinds(events) == {events[i].kind : i \in 1..Len(events)}

NoNetworkCall(call) == Kinds(call.events) \cap NetworkKinds = {}

UnsafeScheme(call) == call.url.scheme \notin SafeSchemes

\* C5, as claimed: for a URL whose scheme is not http or https, can_fetch
\* returns false, and neither can_fetch nor get_page makes a network call.
C5_CanFetchRejectsScheme ==
  (lastCall.op # "none" /\ UnsafeScheme(lastCall))
    => /\ NoNetworkCall(lastCall)
       /\ ~lastCall.ret

\* C5, amended: for a URL whose scheme is not http or https, get_page stops at
\* its scheme check: it logs the unsafe scheme, returns None and makes no
\* network call, neither for the robots file nor for the page, whatever
\* respect_robots is.
C5_GetPageRejectsScheme ==
  (lastCall.op = "get_page" /\ UnsafeScheme(lastCall))
    => /\ NoNetworkCall(lastCall)
       /\ ~lastCall.ret
       /\ lastCall.gate = "unsafe_scheme"
       /\ lastCall.events = <<Ev("error_scheme", lastCall.url)>>

\* get_page was called on the ftp URL with respect_robots on.
C5_Witness ==
  /\ lastCall.op = "get_page"
  /\ lastCall.url = FileF
  /\ respect_robots

\* C6: once stop_scraping has cleared is_scraping during a run, the run takes
\* no further entry from the queue.
C6_StopHaltsRun ==
  [][(pc \in {"running", "fetch"} /\ ~is_scraping) => dequeued' = dequeued]_vars

C8_NoSeedsFail ==
  pc = "done" => (returned.kind = "failure" <=> start_urls = <<>>)

\* The robots retrievals that failed: the request raised, or the server
\* answered with an error of its own (5xx).  A 4xx answer is the server's
\* word on the file (absent, or forbidden) and is not counted here.
RobotsUnavailable == {"raises", "http_server_error"}

\* C9: with respect_robots on, when the robots file cannot be retrieved,
\* can_fetch returns true and a warning is logged.
C9_RobotsFailureAllows ==
  (lastCall.op = "can_fetch" /\ respect_robots /\ lastCall.met \in RobotsUnavailable)
    => /\ lastCall.ret
       /\ "warn_robots_check" \in Kinds(lastCall.events)

Before(events, a, b) ==
  \A j \in 1..Len(events) : events[j].kind = b =>
    \E i \in 1..(j - 1) : events[i].kind = a

\* C10: a get_page call issues the page GET only when its scheme check passed
\* and its can_fetch call returned true for that URL, and after the robots
\* retrieval of that can_fetch call; when can_fetch returned false there is no
\* GET and get_page returns None.
C10_GateBeforeGet ==
  lastCall.op = "get_page" =>
    /\ "page_get" \in Kinds(lastCall.events)
         => /\ ~UnsafeScheme(lastCall)
            /\ lastCall.gate = "allow"
            /\ lastCall.met \notin {"http_forbidden", "http_server_error", "rules_deny"}
            /\ respect_robots => Before(lastCall.events, "robots_get", "page_get")
            /\ \A i \in 1..Len(lastCall.events) :
                 lastCall.events[i].kind = "page_get"
                   => lastCall.events[i].url = lastCall.url
    /\ lastCall.gate = "deny"
         => /\ "page_get" \notin Kinds(lastCall.events)
            /\ ~lastCall.ret

\* The rules of the robots file denied the URL of a get_page call.
C10_Witness ==
  /\ lastCall.op = "get_page"
  /\ lastCall.met = "rules_deny"
  /\ lastCall.gate = "deny"

(***************************************************************************)
(* Properties of the delay.                                                *)
(***************************************************************************)
Indices(events, kind) == {i \in 1..Len(events) : events[i].kind = kind}

\* C11: a get_page call that returns a document sleeps exactly once, after the
\* GET and the parse and as its last step; a get_page call that returns None
\* does not sleep.
C11_DelayOncePerSuccess ==
  lastCall.op = "get_page" =>
    LET ev == lastCall.events IN
      IF lastCall.ret
      THEN /\ Cardinality(Indices(ev, "sleep")) = 1
           /\ ev[Len(ev)].kind = "sleep"
           /\ ev[Len(ev) - 1].kind = "parse"
           /\ Before(ev, "page_get", "parse")
      ELSE Indices(ev, "sleep") = {}

\* get_page returned a document to a scraper that respects robots rules.
C11_Witness ==
  /\ lastCall.op = "get_page"
  /\ lastCall.ret
  /\ lastCall.met = "rules_allow"

RECURSIVE Gaps(_, _)
\* The pairs of consecutive HTTP requests with no sleep between them, among
\* the request lr and the requests of events.
Gaps(lr, events) ==
  IF events = <<>> THEN {}
  ELSE LET e == Head(events)
           here == IF e.kind \in NetworkKinds /\ lr.kind # "none" /\ ~lr.paused
                   THEN {[prev |-> lr.kind, ok |-> lr.ok, next |-> e.kind]}
                   ELSE {}
       IN here \cup Gaps(Advance(lr, e), Tail(events))

\* C12, as claimed: in a run, a sleep separates every two consecutive HTTP
\* requests, robots retrievals and page GETs alike.
C12_PauseBetweenRequests ==
  [][fetched' # fetched => Gaps(lastReq, lastCall'.events) = {}]_vars

\* C12, amended: in a run, a sleep separates every successful page GET from
\* the HTTP request that follows it.
C12_PauseAfterSuccess ==
  [][fetched' # fetched =>
       \A g \in Gaps(lastReq, lastCall'.events) : ~(g.prev = "page_get" /\ g.ok)]_vars

\* A request was made after a successful page GET of the same run, and another
\* after a failed one.
C12_Witness ==
  /\ \E i \in 1..(Len(fetched) - 1) : fetched[i].ok
  /\ \E i \in 1..(Len(fetched) - 1) : ~fetched[i].ok
  /\ lastCall.op = "get_page"
  /\ "robots_get" \in Kinds(lastCall.events)
  /\ "page_get" \in Kinds(lastCall.events)

(***************************************************************************)
(* Properties of the keyword records.                                      *)
(***************************************************************************)
SameLetters(text, kw, i) ==
  /\ i + Len(kw) - 1 <= Len(text)
  /\ \A k \in 1..Len(kw) : LowerChar(text[i + k - 1]) = LowerChar(kw[k])

\* The places of text where kw stands, whatever the case of the letters.
Places(text, kw) == {i \in 1..Len(text) : SameLetters(text, kw, i)}

Apart(S, n) == \A i, j \in S : i # j => (i - j >= n \/ j - i >= n)

\* The case-insensitive occurrence count: the most occurrences of kw in text
\* that do not overlap one another.
Occurrences(text, kw) ==
  LET fits == {S \in SUBSET Places(text, kw) : Apart(S, Len(kw))}
  IN CHOOSE n \in 0..Len(text) :
       /\ \E S \in fits : Cardinality(S) = n
       /\ \A S \in fits : Cardinality(S) <= n

\* The keywords, by position in the list, that occur in the text of url.
Present(url) == {k \in 1..Len(keywords) : Occurrences(PageText(url), keywords[k]) > 0}

\* recs holds one record for each keyword present on the page of url, in the
\* order of the keyword list, with that URL and that count.
RecordsOf(url, recs) ==
  /\ Len(recs) = Cardinality(Present(url))
  /\ \A k \in Present(url) :
       LET pos == Cardinality({j \in Present(url) : j <= k})
       IN recs[pos] = [url |-> url, keyword |-> keywords[k],
                       count |-> Occurrences(PageText(url), keywords[k]),
                       type |-> "keyword_search"]

\* C15: the step that processes a successfully fetched page appends to results
\* exactly the records of that page: one for each keyword whose
\* case-insensitive count in the page text is above zero, in keyword order.
C15_KeywordRecords ==
  [][(fetched' # fetched /\ lastCall'.ret) =>
       /\ Len(results') >= Len(results)
       /\ SubSeq(results', 1, Len(results)) = results
       /\ RecordsOf(cur[1], SubSeq(results', Len(results) + 1, Len(results')))]_vars

\* The page "cat dog CAT" searched for cat and bird at max_depth 0 gave the
\* single record cat, 2.
C15_Witness ==
  /\ pc = "done"
  /\ max_depth = 0
  /\ start_urls = <<HomeX>>
  /\ keywords = <<<<"c", "a", "t">>, <<"b", "i", "r", "d">>>>
  /\ returned.value = <<[url |-> HomeX, keyword |-> <<"c", "a", "t">>, count |-> 2,
                         type |-> "keyword_search"]>>

(***************************************************************************)
(* Properties of the frontier.                                             *)
(***************************************************************************)
\* The entries that a step put on the queue, when q' extends q.
Added == SubSeq(q', Len(q) + 1, Len(q'))

Extends == Len(q') >= Len(q) /\ SubSeq(q', 1, Len(q)) = q

QueueUrls == {q[i][1] : i \in 1..Len(q)}

\* C17, as claimed: the queue of a run holds no URL twice and no URL that is
\* in visited.
C17_FrontierUnique ==
  pc \in {"running", "fetch", "done"} =>
    /\ \A i, j \in 1..Len(q) : i # j => q[i][1] # q[j][1]
    /\ QueueUrls \cap visited = {}

\* C17, amended: link expansion puts a URL on the queue only if the URL is not
\* in visited at that moment, and the seeds are put on the queue as given.
C17_EnqueueUnvisited ==
  [][/\ (pc = "fetch" /\ q' # q)
          => Extends /\ \A i \in 1..Len(Added) : Added[i][1] \notin visited
     /\ (pc = "called" /\ pc' = "running")
          => q' = [i \in 1..Len(start_urls) |-> <<start_urls[i], 0>>]]_vars

\* The queue holds a URL twice and a URL that is in visited, both put there by
\* link expansion.
C17_Witness ==
  /\ pc = "running"
  /\ \E i, j \in 1..Len(q) : i # j /\ q[i][1] = q[j][1] /\ q[i][2] > 0
  /\ \E i \in 1..Len(q) : q[i][1] \in visited /\ q[i][2] > 0

\* C18: only the step that processes a page fetched successfully at a depth
\* below max_depth puts links on the queue; every entry it puts has the depth
\* of the page plus one, an http or https scheme and a URL not in visited.
C18_LinkExpansion ==
  [][/\ pc = "fetch" =>
          /\ Extends
          /\ Added # <<>> => lastCall'.ret /\ cur[2] < max_depth
          /\ \A i \in 1..Len(Added) :
               /\ Added[i][2] = cur[2] + 1
               /\ Added[i][1].scheme \in SafeSchemes
               /\ Added[i][1] \notin visited
     /\ Len(q') > Len(q) => pc \in {"fetch", "called"}]_vars

\* A page with anchors was processed at depth max_depth.
C18_Witness ==
  /\ pc = "running"
  /\ max_depth >= 1
  /\ fetched # <<>>
  /\ fetched[Len(fetched)].ok
  /\ fetched[Len(fetched)].depth = max_depth
  /\ Anchors(fetched[Len(fetched)].url) # <<>>

\* C19: a failed fetch leaves results, the queue, pages_crawled and visited as
\* they were, its URL being in visited already; the loop goes on, and the run
\* returns its results as a plain list.
C19_FailureFrame ==
  /\ [][(fetched' # fetched /\ ~lastCall'.ret) =>
          /\ UNCHANGED <<results, q, pages_crawled, visited>>
          /\ cur[1] \in visited
          /\ pc' = "running"]_vars
  /\ [][(pc = "running" /\ pc' = "fetch") =>
          /\ q' = Tail(q)
          /\ UNCHANGED <<results, pages_crawled>>]_vars
  /\ [](pc = "done" => returned = [kind |-> "list", value |-> results])

\* A run went on after a failed fetch and returned records of a later page.
C19_Witness ==
  /\ pc = "done"
  /\ returned.value # <<>>
  /\ \E i, j \in 1..Len(fetched) : i < j /\ ~fetched[i].ok /\ fetched[j].ok

\* C20: dequeuing an entry whose URL is in visited or whose depth is above
\* max_depth calls neither get_page nor can_fetch and leaves visited, results
\* and pages_crawled as they were.
C20_PureDiscard ==
  [][(dequeued' # dequeued /\ (cur'[1] \in visited \/ cur'[2] > max_depth)) =>
       /\ pc' = "running"
       /\ UNCHANGED <<visited, results, pages_crawled, fetched, lastCall, lastReq>>]_vars

\* Entries were discarded in a run that also crawled a page.
C20_Witness ==
  /\ pc = "done"
  /\ pages_crawled >= 1
  /\ Len(dequeued) >= Len(fetched) + 2

(***************************************************************************)
(* Properties of the scrape_* methods.                                     *)
(***************************************************************************)
\* The places of the elements of doc that selector matches.
MatchSet(doc, selector) == {i \in 1..Len(doc) : selector \in doc[i].sel}

\* The place in selectors of the first selector that matches an element of
\* doc: a set of one place, or of none.
Committed(doc, selectors) ==
  {k \in 1..Len(selectors) :
     /\ MatchSet(doc, selectors[k]) # {}
     /\ \A j \in 1..(k - 1) : MatchSet(doc, selectors[j]) = {}}

\* The n least places of S.
FirstN(S, n) == {i \in S : Cardinality({j \in S : j < i}) < n}

\* An element that a profile makes a record of: its extraction does not
\* fail (the social profile resolves no address, so none fails there) and,
\* for the generic profile, its text is longer than 20 characters.
Usable(profile, e) ==
  /\ ~(e.bad /\ profile # "social")
  /\ profile = "generic" => e.len > 20

RecordElems == {scraped.records[n].elem : n \in 1..Len(scraped.records)}

TheSelectors == Selectors(scrape_args.profile, scrape_args.custom_selectors)

Extracted == scraped.state = "returned" /\ lastCall.ret

C14_AtMostMaxItems ==
  scraped.state = "returned" =>
    /\ Len(scraped.records) <= scrape_args.max_items
    /\ \A m, n \in 1..Len(scraped.records) :
         m < n => scraped.records[m].elem < scraped.records[n].elem
    /\ \A k \in Committed(page_doc, TheSelectors) :
         RecordElems \subseteq
           FirstN(MatchSet(page_doc, TheSelectors[k]), scrape_args.max_items)
    /\ Committed(page_doc, TheSelectors) = {} => RecordElems = {}

\* More elements matched than max_items allows, and max_items records came back.
C14_Witness ==
  /\ Extracted
  /\ scrape_args.max_items >= 1
  /\ Len(scraped.records) = scrape_args.max_items
  /\ \E k \in Committed(page_doc, TheSelectors) :
       Cardinality(MatchSet(page_doc, TheSelectors[k])) > scrape_args.max_items

ErrorKinds == {"error_scheme", "error_fetch", "error_parse"}

FetchFailed == scraped.state = "returned" /\ lastCall.gate = "allow" /\ ~lastCall.ret

\* C16: a scrape_* call whose GET of base_url fails returns normally with an
\* empty list and logs exactly one error, the fetch failure, whatever the
\* profile.
C16_FetchFailureEmpty ==
  FetchFailed =>
    /\ scraped.records = <<>>
    /\ Cardinality(Indices(scraped.events, "error_fetch")) = 1
    /\ \A i \in 1..Len(scraped.events) :
         scraped.events[i].kind \in ErrorKinds => scraped.events[i].kind = "error_fetch"
    /\ scraped.events = lastCall.events

\* The social method failed to fetch a page that holds a post.
C16_Witness ==
  /\ FetchFailed
  /\ scrape_args.profile = "social"
  /\ Committed(page_doc, TheSelectors) # {}
  /\ "page_get" \in Kinds(lastCall.events)

\* The places of the elements that the loop of the call goes through: the
\* first max_items matches of the first matching selector.
Selected ==
  UNION {FirstN(MatchSet(page_doc, TheSelectors[k]), scrape_args.max_items) :
           k \in Committed(page_doc, TheSelectors)}

\* C21: of the elements the generic method goes through, those with a text
\* of 20 characters or more give a record and those with a shorter text give
\* none (elements whose link cannot be resolved set aside).
C21_MinLength20 ==
  (Extracted /\ scrape_args.profile = "generic") =>
    \A i \in Selected :
      ~page_doc[i].bad => (i \in RecordElems <=> page_doc[i].len >= 20)

\* C22: in no record of any profile is the title or name, or the summary,
\* content or text, longer than 500 characters.
C22_FieldCaps ==
  scraped.state = "returned" =>
    \A n \in 1..Len(scraped.records) :
      /\ scraped.records[n].head <= 500
      /\ scraped.records[n].body <= 500

\* The elements the loop goes through whose extraction raises.
Failing == {i \in Selected : page_doc[i].bad /\ scrape_args.profile # "social"
                               /\ (scrape_args.profile = "generic" => page_doc[i].len > 20)}

\* C23: a scrape_* call that got its page returns normally; an element whose
\* extraction raises gives no record and one logged error, and the records
\* returned are those of the other elements gone through, in document order.
C23_ElementFailureLocal ==
  Extracted =>
    /\ RecordElems \cap Failing = {}
    /\ Cardinality(Indices(scraped.events, "error_parse")) = Cardinality(Failing)
    /\ \A i \in Selected \ Failing :
         (scrape_args.profile = "generic" => page_doc[i].len > 20) => i \in RecordElems
    /\ \A m, n \in 1..Len(scraped.records) :
         m < n => scraped.records[m].elem < scraped.records[n].elem

\* The first element gone through raised and the second gave the only record.
C23_Witness ==
  /\ Extracted
  /\ 1 \in Failing
  /\ 2 \in Selected
  /\ Len(scraped.records) = 1
  /\ scraped.records[1].elem = 2

(***************************************************************************)
(* Properties of the desktop application.                                  *)
(***************************************************************************)
\* The traversal state of the keyword search that thread w runs.
RunOf(w) == frames[FrameOf(w)]

InRun(w) == workers[w].pc = "running"

\* C24: two keyword searches in progress at once have each their own
\* visited set, queue, results and page counter, and no step of the thread
\* of one changes those of the other.
C24_RunLocalState ==
  /\ [](\A v, w \in Workers : (v # w /\ InRun(v) /\ InRun(w)) => FrameOf(v) # FrameOf(w))
  /\ [][\A w \in Workers : WorkerStep(w) =>
          \A v \in Workers \ {w} : InRun(v) => RunOf(v)' = RunOf(v)]_vars

\* Two searches are in progress on the same WebScraper, the first started
\* before Stop and the second after it, each with pages of its own visited.
C24_Witness ==
  /\ InRun("w1") /\ InRun("w2")
  /\ workers["w1"].on = workers["w2"].on
  /\ RunOf("w1").visited # {} /\ RunOf("w2").visited # {}
  /\ RunOf("w1") # RunOf("w2")
  /\ ~is_scraping

\* The threads that are running scrape_data.
Alive == {w \in Workers : workers[w].pc \in {"init", "call", "running", "post"}}

\* C25: at most one scrape_data thread is alive, and is_scraping is true
\* while one is.
C25_OneWorker ==
  /\ Cardinality(Alive) <= 1
  /\ Alive # {} => is_scraping

\* C26: the results tree has one row per entry of scraped_data, row i for
\* entry i.
C26_TreeMatchesData ==
  /\ Len(gui.tree) = Len(gui.scraped_data)
  /\ \A i \in 1..Len(gui.tree) : gui.tree[i] = gui.scraped_data[i]

\* C27: a thread launched by start_scraping leads to a run of
\* scraping_finished for it, and every run of scraping_finished leaves
\* is_scraping false, the Start button enabled and the Stop button disabled.
C27_SessionEnds ==
  /\ \A w \in Workers : (workers[w].pc = "init") ~> workers[w].finished
  /\ [][\A w \in Workers : (~workers[w].finished /\ workers[w].finished') =>
          /\ ~is_scraping'
          /\ gui'.start_button = "normal"
          /\ gui'.stop_button = "disabled"]_vars

\* A session that raised and a session that returned records have both ended.
C27_Witness ==
  /\ \E w \in Workers : workers[w].finished /\ workers[w].outcome = "raised"
  /\ \E w \in Workers : workers[w].finished /\ workers[w].outcome = "records"
  /\ ~is_scraping
  /\ gui.after = <<>>

====
